---- MODULE Spec2Model ----
(***************************************************************************)
(* Model of the board reconciliation run of package board                  *)
(* (src/pkg/ghgql/client.go, UpdateBoard and the functions it calls).      *)
(* One run = resolve the board, read the membership index, add the         *)
(* candidates one by one, link repositories, optionally remove stale       *)
(* items, print the summary.  Every GraphQL call is a blocking step that   *)
(* either returns a result or an error.  The module also covers the fetch  *)
(* of sig-auth-interests (queryItems) that feeds such a run, and the       *)
(* custom-field functions EnsureFields, SetItemFields and ResolveOptionID. *)
(***************************************************************************)
EXTENDS Integers, Sequences, FiniteSets, TLC

\* ---------------------------------------------------------------- bounds
MaxItems == 2      \* longest candidate list
MaxBoard == 2      \* most items on the destination board before the first run
MaxRepos == 1      \* longest LinkRepos list
MaxRuns == 2       \* runs in a row (run-twice specification)
PageSize == 1      \* items per page of a paginated read (the code asks for 100)
MaxQueries == 2    \* most search queries buildSearchQueries yields
MaxSpecs == 2      \* longest FieldSpec list handed to EnsureFields
MaxCalls == 2      \* EnsureFields calls in a row
MaxTargets == 2    \* board items SetItemFields is called for
MaxAdds == 2       \* AddItem calls in a row
MaxLinks == 3      \* longest repository list handed to LinkProjectToRepositories
MaxStamps == 3     \* cache files of one prefix (distinct timestamps)
MaxKeep == 2       \* largest keep handed to CleanAll

\* ------------------------------------------------------------ the universe
TargetTitle == "T"                 \* config.Name
OtherTitle == "U"                  \* the title of an unrelated board of the owner
IssueIDs == {"a", "b"}             \* content identifiers of issues / pull requests
DraftIDs == {"d"}                  \* content identifier of a draft issue
OwnerKinds == {"user", "org"}      \* config.Owner is the login of a user or of an organization
NoID == ""                         \* the empty NodeID / an item without content
RepoNames == {<<"o", "/", "r">>, <<"b">>}   \* LinkRepos entries "o/r" and "b", as characters

\* Item.Type (src/pkg/ghgql/client.go:344-349), fixed by the content itself
TypeOf(id) == IF id \in DraftIDs THEN "DraftIssue" ELSE "Issue"

\* Item: a candidate
Item(id) == [NodeID |-> id, Type |-> TypeOf(id)]

CandidateValues == {Item(id) : id \in IssueIDs \cup DraftIDs \cup {NoID}}

SeqsUpTo(S, n) == UNION {[1..k -> S] : k \in 0..n}

\* boardItem: a membership record of a board
boardItem(iid, cid) == [itemID |-> iid, contentID |-> cid]

Range(s) == {s[i] : i \in 1..Len(s)}

\* the order in which the API lists the items a board starts with
BoardOrder == <<"a", "b", "d", NoID>>

InSet(S) == LET Test(x) == x \in S IN SelectSeq(BoardOrder, Test)

\* the boards a run can start from: no two items share a content identifier
InitialBoards ==
    {[i \in 1..Len(InSet(S)) |-> boardItem(i, InSet(S)[i])] :
        S \in {X \in SUBSET Range(BoardOrder) : Cardinality(X) <= MaxBoard}}

ContentSet(its) == {its[i].contentID : i \in 1..Len(its)} \ {NoID}

NoDuplicates(its) ==
    \A i, j \in 1..Len(its) :
        (i # j /\ its[i].contentID # NoID) => its[i].contentID # its[j].contentID

VARIABLES
    projects,      \* the owner's boards: sequence of [Title, Items]; the board id is the index
    nextID,        \* next item-level identifier the API mints
    items,         \* the candidate list handed to UpdateBoard
    sync,          \* config.Sync
    linkRepos,     \* config.LinkRepos
    run,           \* number of the current run
    pc,            \* position of the run inside UpdateBoard
    project,       \* the resolved board id (0 = nil)
    created,       \* the run created the board
    err,           \* UpdateBoard's return value ("none" while running)
    cursor,        \* items already read by the paginated read in progress (0 outside a read)
    ids,           \* getProjectItemContentIDs: the map being filled
    existingIDs,   \* addItems: the membership index
    readOK,        \* the membership read returned without error
    idx,           \* addItems: loop position
    added,         \* addItems: counter
    skipped,       \* addItems: counter
    outcome,       \* what happened to each candidate processed so far (the log lines)
    linked,        \* LinkProjectToRepositories: counter
    linkSkipped,   \* LinkProjectToRepositories: counter
    listed,        \* getProjectItems: the items read so far / removeStaleItems' list
    ridx,          \* removeStaleItems: loop position
    removed,       \* removeStaleItems: counter
    listErr,       \* removeStaleItems returned an error
    mutations,     \* the add and delete mutations issued in this run, in order
    summary,       \* the board URL has been printed
    before,        \* the resolved board's items when the run resolved it
    failed,        \* the kinds of API call that returned an error in this run
    prev,          \* what the previous run left behind (NoPrev in the first run)
    searches,      \* sig-auth-interests: what each configured search query matches
    qidx,          \* queryItems: loop position
    needed,        \* EnsureFields: the FieldSpec list
    fields,        \* EnsureFields: the FieldMap existing, which it fills and returns
    fields0,     \* the FieldMap GetProjectFields handed to the first EnsureFields call
    fpc,           \* position inside EnsureFields / SetItemFields
    fidx,          \* EnsureFields: loop position
    call,          \* number of the current EnsureFields call
    creates,       \* the createProjectV2Field mutations issued so far, in order
    nextField,     \* next field identifier the API mints
    target,        \* number of the item SetItemFields is called for
    fieldValues,   \* SetItemFields: the item's desired values by field name
    todo,          \* SetItemFields: the map entries not yet visited
    values,        \* the item's field values on the board, by field identifier
    updates,       \* the updateProjectV2ItemFieldValue mutations of this SetItemFields call
    updateFailed,  \* a field-value mutation has failed in this or an earlier call
    tpc,           \* position inside AddItem's caller / LinkProjectToRepositories / CleanAll
    ret,           \* what the tool calls made so far have returned
    repos,         \* LinkProjectToRepositories: the repository list
    lidx,          \* LinkProjectToRepositories: loop position
    linkLog,       \* LinkProjectToRepositories: per entry, the API calls made and the result
    dir,           \* the cache directory: the names of its files
    dir0,          \* the cache directory when CleanAll was called
    keep,          \* CleanAll: files to keep per prefix
    prefixLeft,    \* CleanAll: the discovered prefixes not yet cleaned
    total,         \* CleanAll: files removed so far
    rmFailed       \* a file removal has failed

vars == <<projects, nextID, items, sync, linkRepos, run, pc, project, created, err,
          cursor, ids, existingIDs, readOK, idx, added, skipped, outcome,
          linked, linkSkipped, listed, ridx, removed, listErr, mutations,
          summary, before, failed, prev, searches, qidx,
          needed, fields, fields0, fpc, fidx, call, creates, nextField,
          target, fieldValues, todo, values, updates, updateFailed,
          tpc, ret, repos, lidx, linkLog, dir, dir0, keep, prefixLeft, total, rmFailed>>

boardVars == <<projects, nextID>>
runVars == <<run, prev>>
configVars == <<items, sync, linkRepos>>
resolveVars == <<project, created, before>>
addVars == <<cursor, ids, existingIDs, readOK, idx, added, skipped, outcome>>
linkVars == <<linked, linkSkipped>>
removeVars == <<listed, ridx, removed, listErr>>
queryVars == <<searches, qidx>>
ensureVars == <<needed, fields, fields0, fidx, call, creates, nextField>>
setVars == <<target, fieldValues, todo, values, updates, updateFailed>>
fieldVars == <<ensureVars, fpc, setVars>>
addItemVars == <<ret>>
linkToolVars == <<repos, lidx, linkLog>>
cleanVars == <<dir, dir0, keep, prefixLeft, total, rmFailed>>
toolVars == <<tpc, addItemVars, linkToolVars, cleanVars>>

NoPrev == [project |-> 0, err |-> "none", members |-> {}, addFailed |-> FALSE,
           pruneFailed |-> FALSE]

\* no AddItem, repository linking or cache cleanup in progress
ToolsIdle ==
    /\ tpc = "idle"
    /\ ret = <<>>
    /\ repos = <<>>
    /\ lidx = 1
    /\ linkLog = <<>>
    /\ dir = {}
    /\ dir0 = {}
    /\ keep = 1
    /\ prefixLeft = {}
    /\ total = 0
    /\ rmFailed = FALSE

\* no field schema work in progress
FieldsIdle ==
    /\ needed = <<>>
    /\ fields = <<>>
    /\ fields0 = <<>>
    /\ fpc = "idle"
    /\ fidx = 1
    /\ call = 1
    /\ creates = <<>>
    /\ nextField = 1
    /\ target = 0
    /\ fieldValues = <<>>
    /\ todo = {}
    /\ values = <<>>
    /\ updates = <<>>
    /\ updateFailed = FALSE

\* run-local state at the entry of UpdateBoard
RunInit ==
    /\ pc = "find"
    /\ project = 0
    /\ created = FALSE
    /\ err = "none"
    /\ cursor = 0
    /\ ids = {}
    /\ existingIDs = {}
    /\ readOK = FALSE
    /\ idx = 1
    /\ added = 0
    /\ skipped = 0
    /\ outcome = <<>>
    /\ linked = 0
    /\ linkSkipped = 0
    /\ listed = <<>>
    /\ ridx = 1
    /\ removed = 0
    /\ listErr = FALSE
    /\ mutations = <<>>
    /\ summary = FALSE
    /\ before = <<>>
    /\ failed = {}

Init ==
    /\ \E its \in InitialBoards :
          projects \in {<<[Title |-> OtherTitle, Items |-> <<>>]>>,
                        <<[Title |-> OtherTitle, Items |-> <<>>],
                          [Title |-> TargetTitle, Items |-> its]>>}
    /\ nextID = MaxBoard + 1
    /\ items \in SeqsUpTo(CandidateValues, MaxItems)
    /\ sync \in BOOLEAN
    /\ linkRepos \in SeqsUpTo(RepoNames, MaxRepos)
    /\ run = 1
    /\ prev = NoPrev
    /\ searches = <<>>
    /\ qidx = 1
    /\ FieldsIdle
    /\ ToolsIdle
    /\ RunInit

\* ------------------------------------------------------- board resolution

\* the title scan of findUserProject / findOrgProject: the first board whose
\* title equals the requested one, 0 (nil) when there is none
findByTitle(ps, title) ==
    IF \E i \in 1..Len(ps) : ps[i].Title = title
    THEN CHOOSE i \in 1..Len(ps) :
            /\ ps[i].Title = title
            /\ \A j \in 1..(i - 1) : ps[j].Title # title
    ELSE 0

\* findUserProject: the query fails when the login is not a user or the call fails
findUserProject(ps, kind, title, callFails) ==
    IF kind # "user" \/ callFails
    THEN [proj |-> 0, err |-> TRUE]
    ELSE [proj |-> findByTitle(ps, title), err |-> FALSE]

\* findOrgProject: the query fails when the login is not an organization or the call fails
findOrgProject(ps, kind, title, callFails) ==
    IF kind # "org" \/ callFails
    THEN [proj |-> 0, err |-> TRUE]
    ELSE [proj |-> findByTitle(ps, title), err |-> FALSE]

\* FindProject: user first, then organization; an error of either lookup is dropped
FindProject(ps, kind, title, userFails, orgFails) ==
    LET u == findUserProject(ps, kind, title, userFails)
        o == findOrgProject(ps, kind, title, orgFails)
    IN  IF ~u.err /\ u.proj # 0 THEN [proj |-> u.proj, err |-> FALSE]
        ELSE IF ~o.err /\ o.proj # 0 THEN [proj |-> o.proj, err |-> FALSE]
        ELSE [proj |-> 0, err |-> FALSE]

\* resolveOwnerNodeID: TRUE when the owner's node id was resolved
resolveOwnerNodeID(kind, userFails, orgFails) ==
    \/ (kind = "user" /\ ~userFails)
    \/ (kind = "org" /\ ~orgFails)

\* CreateProject: TRUE when the board was created
CreateProject(kind, userFails, orgFails, mutationFails) ==
    resolveOwnerNodeID(kind, userFails, orgFails) /\ ~mutationFails

\* AfterLink with the stale removal run whatever config.Sync says
AfterLinkAlwaysPrunes == "list"

\* where UpdateBoard goes after the add phase, the link phase
AfterLink == IF sync THEN "list" ELSE "summary"
AfterAdd == IF Len(linkRepos) > 0 THEN "link" ELSE AfterLink

\* UpdateBoard, lines 367-372 and 380-382: FindProject and its result
Find ==
    /\ pc = "find"
    /\ \E ownerKind \in OwnerKinds, userFails, orgFails \in BOOLEAN :
          LET r == FindProject(projects, ownerKind, TargetTitle, userFails, orgFails)
              lookupFailed == IF ownerKind = "user" THEN userFails ELSE orgFails
          IN  /\ failed' = IF lookupFailed THEN failed \cup {"find"} ELSE failed
              /\ IF r.err
                 THEN /\ err' = "searching for project"
                      /\ pc' = "done"
                      /\ UNCHANGED <<project, before>>
                 ELSE IF r.proj = 0
                 THEN /\ pc' = "create"
                      /\ UNCHANGED <<project, before, err>>
                 ELSE /\ project' = r.proj
                      /\ before' = projects[r.proj].Items
                      /\ pc' = "read"
                      /\ UNCHANGED err
    /\ UNCHANGED <<boardVars, runVars, configVars, queryVars, toolVars, fieldVars, created, addVars, linkVars,
                   removeVars, mutations, summary>>

\* UpdateBoard, lines 373-379: CreateProject and its result
Create ==
    /\ pc = "create"
    /\ \E ownerKind \in OwnerKinds, userFails, orgFails, mutationFails \in BOOLEAN :
          IF CreateProject(ownerKind, userFails, orgFails, mutationFails)
          THEN /\ projects' = Append(projects, [Title |-> TargetTitle, Items |-> <<>>])
               /\ project' = Len(projects) + 1
               /\ created' = TRUE
               /\ before' = <<>>
               /\ pc' = "read"
               /\ UNCHANGED <<err, failed>>
          ELSE /\ err' = "creating project"
               /\ failed' = failed \cup {"create"}
               /\ pc' = "done"
               /\ UNCHANGED <<projects, project, created, before>>
    /\ UNCHANGED <<nextID, runVars, configVars, queryVars, toolVars, fieldVars, addVars, linkVars, removeVars,
                   mutations, summary>>

\* --------------------------------------------------------------- add phase

Min(a, b) == IF a < b THEN a ELSE b

\* one page of a board's items after the cursor
Page(its, cur) == SubSeq(its, cur + 1, Min(cur + PageSize, Len(its)))

hasNextPage(its, cur) == cur + PageSize < Len(its)

\* the content id the membership query returns for a node: it selects the id
\* of Issue and PullRequest content only
queriedContentID(it) ==
    IF TypeOf(it.contentID) = "DraftIssue" THEN NoID ELSE it.contentID

\* getProjectItemContentIDs, lines 716-720: the ids one page adds to the map
pageContentIDs(page) ==
    {queriedContentID(page[i]) : i \in 1..Len(page)} \ {NoID}

\* membershipIndex with the pages read before the failure kept
membershipIndexKeepsPartial(ok, readIDs) == readIDs

\* addItems, lines 612-616: the index addItems works with, given the outcome of the read
membershipIndex(ok, readIDs) == IF ok THEN readIDs ELSE {}

\* addItemsErr with the failure of the membership read handed to the caller
addItemsErrOnReadFailure(ok) == ~ok

\* addItems, line 666: the error addItems returns
addItemsErr(ok) == FALSE

\* addDecision with candidates without a node id sent to the API
addDecisionNoIDAttempted(item, existing) ==
    IF item.Type = "DraftIssue" THEN "draft"
    ELSE IF item.NodeID \in existing THEN "present"
    ELSE "attempt"

\* addDecision without the look-up in the membership index
addDecisionNoIndexCheck(item, existing) ==
    IF item.NodeID = NoID THEN "noid"
    ELSE IF item.Type = "DraftIssue" THEN "draft"
    ELSE "attempt"

\* addDecision without the draft-issue test
addDecisionDraftsAdded(item, existing) ==
    IF item.NodeID = NoID THEN "noid"
    ELSE IF item.NodeID \in existing THEN "present"
    ELSE "attempt"

\* addItems, lines 625-642: what the loop decides for one candidate
addDecision(item, existing) ==
    IF item.NodeID = NoID THEN "noid"
    ELSE IF item.Type = "DraftIssue" THEN "draft"
    ELSE IF item.NodeID \in existing THEN "present"
    ELSE "attempt"

\* afterFailedAdd with a break in place of the continue
afterFailedAddBreaks(i, n) == n + 1

\* addItems, lines 656-660: the loop position after a failed add mutation
afterFailedAdd(i, n) == i + 1

\* the board with the given id gets the item list its
withItems(ps, id, its) == [ps EXCEPT ![id].Items = its]

\* leaving addItems: UpdateBoard lines 386-390
LeaveAdd(ok) ==
    IF addItemsErr(ok)
    THEN /\ err' = "adding items"
         /\ pc' = "done"
    ELSE /\ pc' = AfterAdd
         /\ UNCHANGED err

\* getProjectItemContentIDs, one iteration of the loop at lines 689-727, and
\* what addItems does with the result (lines 612-616)
ReadPage ==
    /\ pc = "read"
    /\ \E callFails \in BOOLEAN :
          LET its == projects[project].Items IN
          IF callFails
          THEN /\ existingIDs' = membershipIndex(FALSE, ids)
               /\ readOK' = FALSE
               /\ failed' = failed \cup {"read"}
               /\ IF Len(items) = 0
                  THEN LeaveAdd(FALSE)
                  ELSE pc' = "add" /\ UNCHANGED err
               /\ cursor' = 0
               /\ UNCHANGED ids
          ELSE /\ ids' = ids \cup pageContentIDs(Page(its, cursor))
               /\ UNCHANGED failed
               /\ IF hasNextPage(its, cursor)
                  THEN /\ cursor' = cursor + PageSize
                       /\ UNCHANGED <<existingIDs, readOK, pc, err>>
                  ELSE /\ existingIDs' = membershipIndex(TRUE, ids')
                       /\ readOK' = TRUE
                       /\ cursor' = 0
                       /\ IF Len(items) = 0
                          THEN LeaveAdd(TRUE)
                          ELSE pc' = "add" /\ UNCHANGED err
    /\ UNCHANGED <<boardVars, runVars, configVars, queryVars, toolVars, fieldVars, resolveVars, idx, added, skipped,
                   outcome, linkVars, removeVars, mutations, summary>>

\* addItems, one iteration of the loop at lines 624-664
AddStep ==
    /\ pc = "add"
    /\ idx <= Len(items)
    /\ LET item == items[idx]
           d == addDecision(item, existingIDs)
       IN  IF d # "attempt"
           THEN /\ skipped' = skipped + 1
                /\ outcome' = Append(outcome, d)
                /\ idx' = idx + 1
                /\ IF idx = Len(items)
                   THEN LeaveAdd(readOK)
                   ELSE UNCHANGED <<pc, err>>
                /\ UNCHANGED <<boardVars, added, mutations, failed>>
           ELSE \E callFails \in BOOLEAN :
                  IF callFails
                  THEN /\ skipped' = skipped + 1
                       /\ outcome' = Append(outcome, "failed")
                       /\ failed' = failed \cup {"add"}
                       /\ mutations' = Append(mutations,
                              [kind |-> "add", content |-> item.NodeID, item |-> 0, ok |-> FALSE])
                       /\ idx' = afterFailedAdd(idx, Len(items))
                       /\ IF idx' > Len(items)
                          THEN LeaveAdd(readOK)
                          ELSE UNCHANGED <<pc, err>>
                       /\ UNCHANGED <<boardVars, added>>
                  ELSE /\ projects' = withItems(projects, project,
                              Append(projects[project].Items, boardItem(nextID, item.NodeID)))
                       /\ nextID' = nextID + 1
                       /\ added' = added + 1
                       /\ outcome' = Append(outcome, "added")
                       /\ mutations' = Append(mutations,
                              [kind |-> "add", content |-> item.NodeID, item |-> nextID, ok |-> TRUE])
                       /\ idx' = idx + 1
                       /\ IF idx = Len(items)
                          THEN LeaveAdd(readOK)
                          ELSE UNCHANGED <<pc, err>>
                       /\ UNCHANGED <<skipped, failed>>
    /\ UNCHANGED <<runVars, configVars, queryVars, toolVars, fieldVars, resolveVars, cursor, ids, existingIDs, readOK,
                   linkVars, removeVars, summary>>

\* -------------------------------------------------------------- link phase

\* strings.SplitN(repo, "/", 2) yields two parts exactly when repo holds a "/"
splitsInTwo(repo) == \E i \in 1..Len(repo) : repo[i] = "/"

\* what the API calls for one repository can lead to
LinkResults == {"linked", "resolveErr", "alreadyLinked", "linkErr"}

\* LinkProjectToRepositories, lines 853-893: the result of one entry
linkResult(repo, apiResult) == IF splitsInTwo(repo) THEN apiResult ELSE "invalid"

CountOf(f, n, x) == Cardinality({i \in 1..n : f[i] = x})

\* LinkProjectToRepositories as a whole (UpdateBoard lines 392-401)
Link ==
    /\ pc = "link"
    /\ \E api \in [1..Len(linkRepos) -> LinkResults] :
          LET res == [i \in 1..Len(linkRepos) |-> linkResult(linkRepos[i], api[i])]
              n == Len(linkRepos)
          IN  /\ linked' = CountOf(res, n, "linked")
              /\ linkSkipped' = n - CountOf(res, n, "linked")
              /\ failed' = IF \E i \in 1..n : res[i] \in {"resolveErr", "alreadyLinked", "linkErr"}
                           THEN failed \cup {"link"} ELSE failed
    /\ pc' = AfterLink
    /\ UNCHANGED <<boardVars, runVars, configVars, queryVars, toolVars, fieldVars, resolveVars, err, addVars,
                   removeVars, mutations, summary>>

\* ------------------------------------------------------------ stale removal

\* removeStaleItems, lines 735-740
currentIDs(cands) == {cands[i].NodeID : i \in 1..Len(cands)} \ {NoID}

\* isStale with the membership test the wrong way round
isStaleInverted(it, current) == it.contentID # NoID /\ it.contentID \in current

\* isStale without the test for an empty content identifier
isStaleAnyContent(it, current) == it.contentID \notin current

\* removeStaleItems, line 755
isStale(it, current) == it.contentID # NoID /\ it.contentID \notin current

\* deleteProjectV2Item
withoutItem(its, iid) == LET Keep(it) == it.itemID # iid IN SelectSeq(its, Keep)

\* afterListError with the prune going on over the pages read so far
afterListErrorPrunes == "remove"

\* afterListError with the listing error ending the run
afterListErrorAborts == "done"

\* removeStaleItems, lines 742-745: where the run goes when the listing fails
afterListError == "summary"

\* getProjectItems, one iteration of the loop at lines 801-843, and
\* removeStaleItems' handling of the result (lines 742-745)
ListPage ==
    /\ pc = "list"
    /\ \E callFails \in BOOLEAN :
          LET its == projects[project].Items IN
          IF callFails
          THEN /\ listErr' = TRUE
               /\ failed' = failed \cup {"list"}
               /\ pc' = afterListError
               /\ UNCHANGED <<cursor, listed, ridx>>
          ELSE /\ listed' = listed \o Page(its, cursor)
               /\ UNCHANGED <<listErr, failed>>
               /\ IF hasNextPage(its, cursor)
                  THEN /\ cursor' = cursor + PageSize
                       /\ UNCHANGED <<pc, ridx>>
                  ELSE /\ ridx' = 1
                       /\ pc' = IF Len(listed') = 0 THEN "summary" ELSE "remove"
                       /\ UNCHANGED cursor
    /\ UNCHANGED <<boardVars, runVars, configVars, queryVars, toolVars, fieldVars, resolveVars, err, ids, existingIDs,
                   readOK, idx, added, skipped, outcome, linkVars, removed,
                   mutations, summary>>

\* afterFailedDelete with a break in place of the continue
afterFailedDeleteBreaks(i, n) == n + 1

\* removeStaleItems, lines 761-764: the loop position after a failed delete mutation
afterFailedDelete(i, n) == i + 1

\* removeStaleItems, one iteration of the loop at lines 754-768
RemoveStep ==
    /\ pc = "remove"
    /\ ridx <= Len(listed)
    /\ LET it == listed[ridx] IN
       IF ~isStale(it, currentIDs(items))
       THEN /\ ridx' = ridx + 1
            /\ UNCHANGED <<boardVars, removed, mutations, failed>>
       ELSE \E callFails \in BOOLEAN :
              /\ mutations' = Append(mutations,
                     [kind |-> "delete", content |-> it.contentID, item |-> it.itemID,
                      ok |-> ~callFails])
              /\ IF callFails
                 THEN /\ failed' = failed \cup {"delete"}
                      /\ ridx' = afterFailedDelete(ridx, Len(listed))
                      /\ UNCHANGED <<boardVars, removed>>
                 ELSE /\ projects' = withItems(projects, project,
                             withoutItem(projects[project].Items, it.itemID))
                      /\ removed' = removed + 1
                      /\ ridx' = ridx + 1
                      /\ UNCHANGED <<nextID, failed>>
    /\ pc' = IF ridx' > Len(listed) THEN "summary" ELSE "remove"
    /\ UNCHANGED <<runVars, configVars, queryVars, toolVars, fieldVars, resolveVars, err, addVars, linkVars, listed,
                   listErr, summary>>

\* UpdateBoard, lines 414-415
Summary ==
    /\ pc = "summary"
    /\ summary' = TRUE
    /\ err' = "nil"
    /\ pc' = "done"
    /\ UNCHANGED <<boardVars, runVars, configVars, queryVars, toolVars, fieldVars, resolveVars, addVars, linkVars,
                   removeVars, mutations, failed>>

\* the members (content identifiers) of the resolved board
Members == IF project = 0 THEN {} ELSE ContentSet(projects[project].Items)

\* the tool is run again with the same configuration and candidates
Rerun ==
    /\ pc = "done"
    /\ run < MaxRuns
    /\ run' = run + 1
    /\ prev' = [project |-> project, err |-> err, members |-> Members,
                 addFailed |-> "add" \in failed,
                 pruneFailed |-> failed \cap {"list", "delete"} # {}]
    /\ pc' = "find"
    /\ project' = 0
    /\ created' = FALSE
    /\ err' = "none"
    /\ cursor' = 0
    /\ ids' = {}
    /\ existingIDs' = {}
    /\ readOK' = FALSE
    /\ idx' = 1
    /\ added' = 0
    /\ skipped' = 0
    /\ outcome' = <<>>
    /\ linked' = 0
    /\ linkSkipped' = 0
    /\ listed' = <<>>
    /\ ridx' = 1
    /\ removed' = 0
    /\ listErr' = FALSE
    /\ mutations' = <<>>
    /\ summary' = FALSE
    /\ before' = <<>>
    /\ failed' = {}
    /\ UNCHANGED <<boardVars, configVars, queryVars, toolVars, fieldVars>>

Next == Find \/ Create \/ ReadPage \/ AddStep \/ Link \/ ListPage \/ RemoveStep \/ Summary

Spec == Init /\ [][Next]_vars

\* the callers hand over candidates deduplicated by NodeID
\* (src/sig_auth_interests/query.go, queryItems)
Deduplicated(cands) == \A i, j \in 1..Len(cands) : i # j => cands[i].NodeID # cands[j].NodeID

\* the synchronizer run several times in a row on deduplicated candidates and
\* a configuration without LinkRepos
InitTwice == Init /\ linkRepos = <<>> /\ Deduplicated(items)

NextTwice ==
    Find \/ Create \/ ReadPage \/ AddStep \/ ListPage \/ RemoveStep \/ Summary \/ Rerun

SpecTwice == InitTwice /\ [][NextTwice]_vars

\* every API call returns, so a run that can take a step takes it
\* runs on deduplicated candidates and well-formed LinkRepos entries
InitLive ==
    /\ Init
    /\ Deduplicated(items)
    /\ \A i \in 1..Len(linkRepos) : splitsInTwo(linkRepos[i])

LiveSpec == InitLive /\ [][Next]_vars /\ WF_vars(Next)

\* ------------------------------------------- sig-auth-interests: the fetch

\* the configured queries: each matches a set of issues / pull requests
SearchConfigs == SeqsUpTo(SUBSET IssueIDs, MaxQueries) \ {<<>>}

\* executeSearch: every match with a node id, or an error and no item at all
executeSearch(matches, callFails) ==
    IF callFails
    THEN [items |-> <<>>, err |-> TRUE]
    ELSE [items |-> [i \in 1..Len(InSet(matches)) |-> Item(InSet(matches)[i])], err |-> FALSE]

\* queryItems, lines 55-60: append the items whose node id was not seen yet
RECURSIVE appendUnseen(_, _)
appendUnseen(all, found) ==
    IF found = <<>> THEN all
    ELSE LET it == Head(found)
             isSeen == \E i \in 1..Len(all) : all[i].NodeID = it.NodeID
         IN  appendUnseen(IF isSeen THEN all ELSE Append(all, it), Tail(found))

\* queryItems, one iteration of the loop over the queries (lines 46-63);
\* after the last one main hands the items to updateBoard
QueryStep ==
    /\ pc = "query"
    /\ qidx <= Len(searches)
    /\ \E callFails \in BOOLEAN :
          LET res == executeSearch(searches[qidx], callFails)
          IN  items' = IF res.err THEN items ELSE appendUnseen(items, res.items)
    /\ qidx' = qidx + 1
    /\ pc' = IF qidx = Len(searches) THEN "find" ELSE "query"
    /\ UNCHANGED <<boardVars, runVars, sync, linkRepos, searches, resolveVars, err, addVars,
                   linkVars, removeVars, mutations, summary, failed, fieldVars, toolVars>>

\* sig-auth-interests --use-cache=false --output board --sync, no LinkRepos configured
InitQuery ==
    /\ \E its \in InitialBoards :
          projects \in {<<[Title |-> OtherTitle, Items |-> <<>>]>>,
                        <<[Title |-> OtherTitle, Items |-> <<>>],
                          [Title |-> TargetTitle, Items |-> its]>>}
    /\ nextID = MaxBoard + 1
    /\ items = <<>>
    /\ sync = TRUE
    /\ linkRepos = <<>>
    /\ run = 1
    /\ prev = NoPrev
    /\ searches \in SearchConfigs
    /\ qidx = 1
    /\ FieldsIdle
    /\ ToolsIdle
    /\ pc = "query"
    /\ project = 0
    /\ created = FALSE
    /\ err = "none"
    /\ cursor = 0
    /\ ids = {}
    /\ existingIDs = {}
    /\ readOK = FALSE
    /\ idx = 1
    /\ added = 0
    /\ skipped = 0
    /\ outcome = <<>>
    /\ linked = 0
    /\ linkSkipped = 0
    /\ listed = <<>>
    /\ ridx = 1
    /\ removed = 0
    /\ listErr = FALSE
    /\ mutations = <<>>
    /\ summary = FALSE
    /\ before = <<>>
    /\ failed = {}

NextQuery ==
    QueryStep \/ Find \/ Create \/ ReadPage \/ AddStep \/ ListPage \/ RemoveStep \/ Summary

SpecQuery == InitQuery /\ [][NextQuery]_vars

\* ------------------------------------------------- custom fields: universe

\* strings that go through strings.ToLower, as sequences of characters
CapDo == <<"D", "o">>
LowDo == <<"d", "o">>
UpDO == <<"D", "O">>
CapTo == <<"T", "o">>
CapZz == <<"Z", "z">>
Empty == <<>>

FieldNames == {"Status", "Notes"}

\* the FieldSpec values a caller asks for
SpecUniverse ==
    {[Name |-> "Status", Type |-> "SINGLE_SELECT", Options |-> <<CapDo, CapTo>>],
     [Name |-> "Status", Type |-> "SINGLE_SELECT", Options |-> <<UpDO, UpDO>>],
     [Name |-> "Notes", Type |-> "TEXT", Options |-> <<>>]}

\* FieldOption
FieldOption(id, name) == [ID |-> id, Name |-> name]

\* the fields a board can hold before the first call, as parseFieldNodes builds them
StatusDefs ==
    {[ID |-> 1, Name |-> "Status", Type |-> "SINGLE_SELECT",
      Options |-> <<FieldOption(11, LowDo)>>],
     [ID |-> 1, Name |-> "Status", Type |-> "SINGLE_SELECT",
      Options |-> <<FieldOption(11, CapTo), FieldOption(12, UpDO), FieldOption(13, CapDo)>>]}

NotesDef == [ID |-> 2, Name |-> "Notes", Type |-> "TEXT", Options |-> <<>>]

\* FieldMap values GetProjectFields can return, keyed by field name
ExistingMaps ==
    {<<>>} \cup {[n \in {"Notes"} |-> NotesDef]}
    \cup {[n \in {"Status"} |-> d] : d \in StatusDefs}
    \cup {[n \in FieldNames |-> IF n = "Status" THEN d ELSE NotesDef] : d \in StatusDefs}

\* the desired values of a candidate's field map ("" = no value)
ValueUniverse == {Empty, UpDO, CapZz}

\* map[string]string values: any subset of the field names as keys
FieldValueMaps == UNION {[S -> ValueUniverse] : S \in SUBSET FieldNames}

\* ------------------------------------------------ custom fields: functions

\* unicode.ToLower on the letters in use
lowerOf(c) ==
    CASE c = "D" -> "d"
      [] c = "O" -> "o"
      [] c = "T" -> "t"
      [] c = "Z" -> "z"
      [] OTHER -> c

\* strings.ToLower
ToLower(str) == [i \in 1..Len(str) |-> lowerOf(str[i])]

\* ResolveOptionID comparing the names as they are written
ResolveOptionIDExact(field, optionName) ==
    LET hits == {i \in 1..Len(field.Options) : field.Options[i].Name = optionName}
    IN  IF hits = {}
        THEN [id |-> 0, found |-> FALSE]
        ELSE [id |-> field.Options[CHOOSE i \in hits : \A j \in hits : i <= j].ID,
              found |-> TRUE]

\* ResolveOptionID answering with the first option when no name matches
ResolveOptionIDFallsBack(field, optionName) ==
    LET lower == ToLower(optionName)
        hits == {i \in 1..Len(field.Options) : ToLower(field.Options[i].Name) = lower}
    IN  IF field.Options = <<>>
        THEN [id |-> 0, found |-> FALSE]
        ELSE [id |-> field.Options[IF hits = {} THEN 1
                                   ELSE CHOOSE i \in hits : \A j \in hits : i <= j].ID,
              found |-> TRUE]

\* ResolveOptionID: the first option whose lower-cased name equals the lower-cased request
ResolveOptionID(field, optionName) ==
    LET lower == ToLower(optionName)
        hits == {i \in 1..Len(field.Options) : ToLower(field.Options[i].Name) = lower}
    IN  IF hits = {}
        THEN [id |-> 0, found |-> FALSE]
        ELSE [id |-> field.Options[CHOOSE i \in hits : \A j \in hits : i <= j].ID,
              found |-> TRUE]

\* countMissingOptions comparing the names as they are written
countMissingOptionsExact(field, names) ==
    LET have == {field.Options[i].Name : i \in 1..Len(field.Options)}
    IN  Cardinality({i \in 1..Len(names) : names[i] \notin have})

\* countMissingOptions
countMissingOptions(field, names) ==
    LET have == {ToLower(field.Options[i].Name) : i \in 1..Len(field.Options)}
    IN  Cardinality({i \in 1..Len(names) : ToLower(names[i]) \notin have})

\* createField, lines 1518-1529: the FieldDef built from the API's answer; the
\* API mints the field identifier and one option identifier per option sent
createField(id, name, dataType, options) ==
    IF dataType = "SINGLE_SELECT" /\ Len(options) > 0
    THEN [ID |-> id, Name |-> name, Type |-> "SINGLE_SELECT",
          Options |-> [i \in 1..Len(options) |-> FieldOption(10 * id + i, options[i])]]
    ELSE [ID |-> id, Name |-> name, Type |-> dataType, Options |-> <<>>]

\* EnsureFields, lines 1552-1560: the data type sent for a FieldSpec
createType(spec) == IF spec.Type = "SINGLE_SELECT" THEN "SINGLE_SELECT" ELSE "TEXT"

\* withField with the new definition never stored
withFieldNotStored(fm, name, def) == fm

\* existing[spec.Name] = *newField
withField(fm, name, def) ==
    [n \in DOMAIN fm \cup {name} |-> IF n = name THEN def ELSE fm[n]]

\* ----------------------------------------------------------- EnsureFields

\* isPresent looking only at the schema as it was read
isPresentOnlyOriginal(fm, name) == name \in DOMAIN fields0

\* isPresent with every field taken as missing
isPresentNever(fm, name) == FALSE

\* EnsureFields, line 1536: existing[spec.Name] has an entry
isPresent(fm, name) == name \in DOMAIN fm

\* afterFailedCreate with the loop left at the first failure
afterFailedCreateBreaks(i, n) == n + 1

\* EnsureFields, lines 1563-1566: the loop position after a failed createField
afterFailedCreate(i, n) == i + 1

\* EnsureFields, one iteration of the loop over needed (lines 1535-1570)
EnsureStep ==
    /\ fpc = "ensure"
    /\ fidx <= Len(needed)
    /\ LET spec == needed[fidx] IN
       IF isPresent(fields, spec.Name)
       THEN /\ fidx' = fidx + 1
            /\ UNCHANGED <<fields, creates, nextField>>
       ELSE \E callFails \in BOOLEAN :
              /\ creates' = Append(creates,
                     [call |-> call, name |-> spec.Name, at |-> fidx, ok |-> ~callFails])
              /\ IF callFails
                 THEN /\ fidx' = afterFailedCreate(fidx, Len(needed))
                      /\ UNCHANGED <<fields, nextField>>
                 ELSE /\ fields' = withField(fields, spec.Name,
                             createField(nextField, spec.Name, createType(spec), spec.Options))
                      /\ nextField' = nextField + 1
                      /\ fidx' = fidx + 1
    /\ UNCHANGED <<needed, fields0, fpc, call, setVars>>
    /\ UNCHANGED <<boardVars, runVars, configVars, queryVars, toolVars, pc, resolveVars, err, addVars,
                   linkVars, removeVars, mutations, summary, failed>>

\* EnsureFields, line 1572: return existing
EnsureReturn ==
    /\ fpc = "ensure"
    /\ fidx > Len(needed)
    /\ fpc' = "ensured"
    /\ UNCHANGED <<ensureVars, setVars>>
    /\ UNCHANGED <<boardVars, runVars, configVars, queryVars, toolVars, pc, resolveVars, err, addVars,
                   linkVars, removeVars, mutations, summary, failed>>

\* the caller hands the returned map and the same specs to EnsureFields again,
\* before it goes through the items
EnsureAgain ==
    /\ fpc = "ensured"
    /\ call < MaxCalls
    /\ target = 0
    /\ call' = call + 1
    /\ fidx' = 1
    /\ fpc' = "ensure"
    /\ UNCHANGED <<needed, fields, fields0, creates, nextField, setVars>>
    /\ UNCHANGED <<boardVars, runVars, configVars, queryVars, toolVars, pc, resolveVars, err, addVars,
                   linkVars, removeVars, mutations, summary, failed>>

\* ---------------------------------------------------------- SetItemFields

NoOption == 0      \* the empty SingleSelectOptionID

\* SetItemFields, lines 1412-1433: what the loop body does with one map entry
\* before the mutation: skip it, or the FieldValue to send
fieldValueFor(destFields, fieldName, desiredValue) ==
    IF desiredValue = Empty THEN [skip |-> "empty"]
    ELSE IF fieldName \notin DOMAIN destFields THEN [skip |-> "nofield"]
    ELSE LET destField == destFields[fieldName] IN
         IF destField.Type = "SINGLE_SELECT"
         THEN LET r == ResolveOptionID(destField, desiredValue) IN
              IF ~r.found THEN [skip |-> "nooption"]
              ELSE [skip |-> "no", field |-> destField.ID,
                    SingleSelectOptionID |-> r.id, Text |-> Empty]
         ELSE [skip |-> "no", field |-> destField.ID,
               SingleSelectOptionID |-> NoOption, Text |-> desiredValue]

\* valueMap with the text put in lower case
valueMapLowered(fv) ==
    IF fv.SingleSelectOptionID # NoOption
    THEN [kind |-> "singleSelectOptionId", opt |-> fv.SingleSelectOptionID, text |-> Empty]
    ELSE IF fv.Text # Empty
    THEN [kind |-> "text", opt |-> NoOption, text |-> ToLower(fv.Text)]
    ELSE [kind |-> "none", opt |-> NoOption, text |-> Empty]

\* UpdateItemField, lines 1185-1192: the value sent, "none" when there is nothing to set
valueMap(fv) ==
    IF fv.SingleSelectOptionID # NoOption
    THEN [kind |-> "singleSelectOptionId", opt |-> fv.SingleSelectOptionID, text |-> Empty]
    ELSE IF fv.Text # Empty
    THEN [kind |-> "text", opt |-> NoOption, text |-> fv.Text]
    ELSE [kind |-> "none", opt |-> NoOption, text |-> Empty]

\* the value an item holds for a field before SetItemFields is called
OldValue == [kind |-> "old", opt |-> NoOption, text |-> Empty]

\* afterFailedUpdate with the call given up at the first failed mutation
afterFailedUpdateReturns(left, fieldName) == {}

\* SetItemFields, lines 1434-1436: the entries left to visit after a failed mutation
afterFailedUpdate(left, fieldName) == left \ {fieldName}

\* the caller reaches the next item and calls SetItemFields with the map EnsureFields returned
SetItemFieldsCall ==
    /\ fpc = "ensured"
    /\ target < MaxTargets
    /\ target' = target + 1
    /\ fieldValues' \in FieldValueMaps
    /\ todo' = DOMAIN fieldValues'
    /\ values' = [id \in {fields[n].ID : n \in DOMAIN fields} |-> OldValue]
    /\ updates' = <<>>
    /\ fpc' = "set"
    /\ UNCHANGED <<ensureVars, updateFailed>>
    /\ UNCHANGED <<boardVars, runVars, configVars, queryVars, toolVars, pc, resolveVars, err, addVars,
                   linkVars, removeVars, mutations, summary, failed>>

\* SetItemFields, one iteration of the range over fieldValues (lines 1412-1437);
\* a Go map is visited in an unspecified order
SetFieldStep ==
    /\ fpc = "set"
    /\ \E fieldName \in todo :
          LET fv == fieldValueFor(fields, fieldName, fieldValues[fieldName]) IN
          IF fv.skip # "no" \/ valueMap(fv).kind = "none"
          THEN /\ todo' = todo \ {fieldName}
               /\ UNCHANGED <<values, updates, updateFailed>>
          ELSE \E callFails \in BOOLEAN :
                 /\ updates' = Append(updates,
                        [name |-> fieldName, field |-> fv.field, value |-> valueMap(fv),
                         ok |-> ~callFails])
                 /\ values' = IF callFails THEN values
                              ELSE [values EXCEPT ![fv.field] = valueMap(fv)]
                 /\ updateFailed' = (updateFailed \/ callFails)
                 /\ todo' = IF callFails THEN afterFailedUpdate(todo, fieldName)
                            ELSE todo \ {fieldName}
    /\ UNCHANGED <<ensureVars, fpc, target, fieldValues>>
    /\ UNCHANGED <<boardVars, runVars, configVars, queryVars, toolVars, pc, resolveVars, err, addVars,
                   linkVars, removeVars, mutations, summary, failed>>

\* SetItemFields returns (it has no result) and the caller goes on
SetItemFieldsReturn ==
    /\ fpc = "set"
    /\ todo = {}
    /\ fpc' = "ensured"
    /\ UNCHANGED <<ensureVars, setVars>>
    /\ UNCHANGED <<boardVars, runVars, configVars, queryVars, toolVars, pc, resolveVars, err, addVars,
                   linkVars, removeVars, mutations, summary, failed>>

\* a board's schema is read with GetProjectFields, then EnsureFields and
\* SetItemFields work on it; no synchronizer run is in progress
InitFields ==
    /\ projects = <<>>
    /\ nextID = 1
    /\ items = <<>>
    /\ sync = FALSE
    /\ linkRepos = <<>>
    /\ run = 1
    /\ prev = NoPrev
    /\ searches = <<>>
    /\ qidx = 1
    /\ pc = "done"
    /\ project = 0
    /\ created = FALSE
    /\ err = "none"
    /\ cursor = 0
    /\ ids = {}
    /\ existingIDs = {}
    /\ readOK = FALSE
    /\ idx = 1
    /\ added = 0
    /\ skipped = 0
    /\ outcome = <<>>
    /\ linked = 0
    /\ linkSkipped = 0
    /\ listed = <<>>
    /\ ridx = 1
    /\ removed = 0
    /\ listErr = FALSE
    /\ mutations = <<>>
    /\ summary = FALSE
    /\ before = <<>>
    /\ failed = {}
    /\ needed \in SeqsUpTo(SpecUniverse, MaxSpecs)
    /\ fields0 \in ExistingMaps
    /\ fields = fields0
    /\ fpc = "ensure"
    /\ fidx = 1
    /\ call = 1
    /\ creates = <<>>
    /\ nextField = 3
    /\ target = 0
    /\ fieldValues = <<>>
    /\ todo = {}
    /\ values = <<>>
    /\ updates = <<>>
    /\ updateFailed = FALSE
    /\ ToolsIdle

NextFields ==
    \/ EnsureStep
    \/ EnsureReturn
    \/ EnsureAgain
    \/ SetItemFieldsCall
    \/ SetFieldStep
    \/ SetItemFieldsReturn

SpecFields == InitFields /\ [][NextFields]_vars

\* ------------------------------------------------------------------ tools

\* no synchronizer run, fetch or field work is in progress
NoRun ==
    /\ items = <<>>
    /\ sync = FALSE
    /\ linkRepos = <<>>
    /\ run = 1
    /\ prev = NoPrev
    /\ searches = <<>>
    /\ qidx = 1
    /\ pc = "done"
    /\ project = 0
    /\ created = FALSE
    /\ err = "none"
    /\ cursor = 0
    /\ ids = {}
    /\ existingIDs = {}
    /\ readOK = FALSE
    /\ idx = 1
    /\ added = 0
    /\ skipped = 0
    /\ outcome = <<>>
    /\ linked = 0
    /\ linkSkipped = 0
    /\ listed = <<>>
    /\ ridx = 1
    /\ removed = 0
    /\ listErr = FALSE
    /\ mutations = <<>>
    /\ summary = FALSE
    /\ before = <<>>
    /\ failed = {}
    /\ FieldsIdle

\* ---------------------------------------------------------------- AddItem

NoItem == 0        \* the empty item identifier

\* what addProjectV2ItemById can answer: an error, or the item for the
\* content; for content that is on the board already the code does not fix
\* whether the API answers with the item that is there, with an empty item,
\* or with a second item
AddAnswers == {"error", "item", "existing", "empty"}

AnswersFor(its, contentID) ==
    IF contentID \in ContentSet(its) THEN AddAnswers ELSE {"error", "item"}

\* the item of a board that holds the content
itemOf(its, contentID) ==
    its[CHOOSE i \in 1..Len(its) :
            /\ its[i].contentID = contentID
            /\ \A j \in 1..(i - 1) : its[j].contentID # contentID].itemID

\* AddItem, lines 1221-1245: the mutation is sent whatever the board holds,
\* and the identifier of the answer is returned as it comes
AddItem(its, contentID, answer, newID) ==
    CASE answer = "error" -> [id |-> NoItem, failed |-> TRUE, Items |-> its]
      [] answer = "item" ->
            [id |-> newID, failed |-> FALSE, Items |-> Append(its, boardItem(newID, contentID))]
      [] answer = "existing" -> [id |-> itemOf(its, contentID), failed |-> FALSE, Items |-> its]
      [] answer = "empty" -> [id |-> NoItem, failed |-> FALSE, Items |-> its]

\* a caller adds one content item to the board with AddItem
AddItemCall ==
    /\ tpc = "additem"
    /\ Len(ret) < MaxAdds
    /\ \E contentID \in IssueIDs :
          \E answer \in AnswersFor(projects[1].Items, contentID) :
              LET its == projects[1].Items
                  r == AddItem(its, contentID, answer, nextID)
              IN  /\ projects' = withItems(projects, 1, r.Items)
                  /\ nextID' = IF Len(r.Items) > Len(its) THEN nextID + 1 ELSE nextID
                  /\ ret' = Append(ret, [content |-> contentID,
                                         present |-> contentID \in ContentSet(its),
                                         id |-> r.id, failed |-> r.failed,
                                         grew |-> Len(r.Items) > Len(its)])
    /\ UNCHANGED <<tpc, linkToolVars, cleanVars>>
    /\ UNCHANGED <<runVars, configVars, queryVars, fieldVars, pc, resolveVars, err, addVars,
                   linkVars, removeVars, mutations, summary, failed>>

InitAddItem ==
    /\ NoRun
    /\ \E its \in InitialBoards : projects = <<[Title |-> TargetTitle, Items |-> its]>>
    /\ nextID = MaxBoard + 1
    /\ tpc = "additem"
    /\ ret = <<>>
    /\ repos = <<>>
    /\ lidx = 1
    /\ linkLog = <<>>
    /\ dir = {}
    /\ dir0 = {}
    /\ keep = 1
    /\ prefixLeft = {}
    /\ total = 0
    /\ rmFailed = FALSE

NextAddItem == AddItemCall

SpecAddItem == InitAddItem /\ [][NextAddItem]_vars

\* ------------------------------------------------ LinkProjectToRepositories

\* the entries of a repository list: "o/r", "b" and "o/", as characters
LinkEntries == {<<"o", "/", "r">>, <<"b">>, <<"o", "/">>}

\* the API calls made for an entry with a given result
callsFor(result) ==
    CASE result = "invalid" -> <<>>
      [] result = "resolveErr" -> <<"resolveRepoNodeID">>
      [] OTHER -> <<"resolveRepoNodeID", "linkProjectV2ToRepository">>

\* afterSkippedLink with the loop left at the first entry that was not linked
afterSkippedLinkBreaks(i, n) == n + 1

\* LinkProjectToRepositories: every branch that counts an entry as skipped
\* ends in continue (lines 857, 864, 883, 887)
afterSkippedLink(i, n) == i + 1

\* LinkProjectToRepositories, one iteration of the loop at lines 853-893
LinkStep ==
    /\ tpc = "link"
    /\ lidx <= Len(repos)
    /\ \E api \in LinkResults :
          LET res == linkResult(repos[lidx], api) IN
          /\ linkLog' = Append(linkLog, [calls |-> callsFor(res), result |-> res])
          /\ IF res = "linked"
             THEN /\ linked' = linked + 1
                  /\ lidx' = lidx + 1
                  /\ UNCHANGED linkSkipped
             ELSE /\ linkSkipped' = linkSkipped + 1
                  /\ lidx' = afterSkippedLink(lidx, Len(repos))
                  /\ UNCHANGED linked
    /\ UNCHANGED <<tpc, ret, repos, cleanVars>>
    /\ UNCHANGED <<boardVars, runVars, configVars, queryVars, fieldVars, pc, resolveVars, err,
                   addVars, removeVars, mutations, summary, failed>>

\* LinkProjectToRepositories, line 895: return linked, skipped, nil
LinkReturn ==
    /\ tpc = "link"
    /\ lidx > Len(repos)
    /\ ret' = <<[linked |-> linked, skipped |-> linkSkipped, failed |-> FALSE]>>
    /\ tpc' = "linked"
    /\ UNCHANGED <<linkToolVars, cleanVars>>
    /\ UNCHANGED <<boardVars, runVars, configVars, queryVars, fieldVars, pc, resolveVars, err,
                   addVars, linkVars, removeVars, mutations, summary, failed>>

InitLink ==
    /\ NoRun
    /\ projects = <<[Title |-> TargetTitle, Items |-> <<>>]>>
    /\ nextID = 1
    /\ tpc = "link"
    /\ ret = <<>>
    /\ repos \in SeqsUpTo(LinkEntries, MaxLinks)
    /\ lidx = 1
    /\ linkLog = <<>>
    /\ dir = {}
    /\ dir0 = {}
    /\ keep = 1
    /\ prefixLeft = {}
    /\ total = 0
    /\ rmFailed = FALSE

NextLink == LinkStep \/ LinkReturn

SpecLink == InitLink /\ [][NextLink]_vars

\* ----------------------------------------------------------- cache cleanup

\* file names as characters, in byte order; a digit stands for the timestamp
\* and the extension that end a cache file name ("2025-01-15T10-30-00.json")
ByteOrder == <<"1", "2", "3", "4", "5", "_", "i", "x">>
Digits == {"1", "2", "3", "4", "5"}
Stamps == {ByteOrder[i] : i \in 1..MaxStamps}

\* the cache prefixes in use: "i_" and "i_x_"
CachePrefixes == {<<"i", "_">>, <<"i", "_", "x", "_">>}

CacheFiles == {Append(p, t) : p \in CachePrefixes, t \in Stamps}

Ord(c) == CHOOSE i \in 1..Len(ByteOrder) : ByteOrder[i] = c

\* a < b for strings, as sort.Strings compares them
RECURSIVE Less(_, _)
Less(a, b) ==
    IF b = <<>> THEN FALSE
    ELSE IF a = <<>> THEN TRUE
    ELSE IF Head(a) # Head(b) THEN Ord(Head(a)) < Ord(Head(b))
    ELSE Less(Tail(a), Tail(b))

\* strings.HasPrefix
HasPrefix(name, prefix) ==
    Len(name) >= Len(prefix) /\ SubSeq(name, 1, Len(prefix)) = prefix

\* CleanAll, lines 298-309: the part of a name before its first year
discoveredPrefix(name) ==
    LET at == CHOOSE i \in 1..Len(name) :
                  name[i] \in Digits /\ \A j \in 1..(i - 1) : name[j] \notin Digits
    IN  SubSeq(name, 1, at - 1)

\* Clean, lines 229-243: the files Clean sets out to remove
toRemove(files, prefix, n) ==
    LET matches == {f \in files : HasPrefix(f, prefix)}
    IN  IF Cardinality(matches) <= n THEN {}
        ELSE {f \in matches : Cardinality({g \in matches : Less(f, g)}) >= n}

\* CleanAll, lines 278-309: read the directory and discover the prefixes
CleanAllCall ==
    /\ tpc = "clean"
    /\ prefixLeft' = {discoveredPrefix(f) : f \in dir}
    /\ total' = 0
    /\ tpc' = "cleaning"
    /\ UNCHANGED <<ret, linkToolVars, dir, dir0, keep, rmFailed>>
    /\ UNCHANGED <<boardVars, runVars, configVars, queryVars, fieldVars, pc, resolveVars, err,
                   addVars, linkVars, removeVars, mutations, summary, failed>>

\* CleanAll, one iteration of the range over prefixSet (lines 312-318) with
\* the Clean call it makes; a Go map is visited in an unspecified order, and
\* each os.Remove can fail
CleanStep ==
    /\ tpc = "cleaning"
    /\ \E prefix \in prefixLeft :
          \E notRemoved \in SUBSET toRemove(dir, prefix, keep) :
              /\ dir' = dir \ (toRemove(dir, prefix, keep) \ notRemoved)
              /\ total' = total + Cardinality(toRemove(dir, prefix, keep) \ notRemoved)
              /\ rmFailed' = (rmFailed \/ notRemoved # {})
              /\ prefixLeft' = prefixLeft \ {prefix}
    /\ UNCHANGED <<tpc, ret, linkToolVars, dir0, keep>>
    /\ UNCHANGED <<boardVars, runVars, configVars, queryVars, fieldVars, pc, resolveVars, err,
                   addVars, linkVars, removeVars, mutations, summary, failed>>

\* CleanAll, line 319: return total, nil
CleanReturn ==
    /\ tpc = "cleaning"
    /\ prefixLeft = {}
    /\ ret' = <<[total |-> total, failed |-> FALSE]>>
    /\ tpc' = "cleaned"
    /\ UNCHANGED <<linkToolVars, cleanVars>>
    /\ UNCHANGED <<boardVars, runVars, configVars, queryVars, fieldVars, pc, resolveVars, err,
                   addVars, linkVars, removeVars, mutations, summary, failed>>

\* a cache directory of .json files and a call CleanAll(dir, keep)
InitClean ==
    /\ NoRun
    /\ projects = <<[Title |-> TargetTitle, Items |-> <<>>]>>
    /\ nextID = 1
    /\ tpc = "clean"
    /\ ret = <<>>
    /\ repos = <<>>
    /\ lidx = 1
    /\ linkLog = <<>>
    /\ dir \in SUBSET CacheFiles
    /\ dir0 = dir
    /\ keep \in 1..MaxKeep
    /\ prefixLeft = {}
    /\ total = 0
    /\ rmFailed = FALSE

NextClean == CleanAllCall \/ CleanStep \/ CleanReturn

SpecClean == InitClean /\ [][NextClean]_vars

\* ------------------------------------------------------------------ claims

\* the items of the resolved board
DestItems == IF project = 0 THEN <<>> ELSE projects[project].Items

\* the run has returned from UpdateBoard without an error
Completed == pc = "done" /\ err = "nil"

\* E and C of the set-correctness statements
E == ContentSet(before)
C == currentIDs(items)

\* content identifiers of the candidates with the given outcome
WithOutcome(o) == {items[j].NodeID : j \in {k \in 1..Len(outcome) : outcome[k] = o}}

\* candidates whose add mutation failed and that no add of this run put on the board
FailedOnly == WithOutcome("failed") \ WithOutcome("added")

DraftCandidates == {c \in C : TypeOf(c) = "DraftIssue"}

\* content identifiers the membership query can return
IndexableIDs(its) == {c \in ContentSet(its) : TypeOf(c) # "DraftIssue"}

\* C1: after the synchronizer completes, no two items of the destination board
\* share a content identifier
C1_NoDuplicateMembers == Completed => NoDuplicates(DestItems)

C3_UnionOfExistingAndCandidates ==
    (Completed /\ ~sync) => Members = E \cup C

\* C3 amended: without prune the members after the run are E union C, minus
\* the candidates that were not on the board and whose add mutation failed or
\* that are draft issues (never added)
C3_UnionMinusFailedAndDrafts ==
    (Completed /\ ~sync) => Members = E \cup (C \ (DraftCandidates \cup FailedOnly))

C3_Witness ==
    /\ Completed /\ ~sync
    /\ "failed" \in Range(outcome) /\ "added" \in Range(outcome)
    /\ E # {} /\ ~(C \subseteq E)

\* content identifiers of the stale items the prune step left on the board
StuckStale ==
    IF listErr THEN E \ C
    ELSE {mutations[i].content :
            i \in {k \in 1..Len(mutations) :
                     mutations[k].kind = "delete" /\ ~mutations[k].ok}}

\* C4 as stated: with prune the members after the run are exactly the
\* candidates minus those whose add failed, and no other item remains
C4_PruneLeavesExactlyCandidates ==
    (Completed /\ sync) =>
        /\ Members = C \ FailedOnly
        /\ \A i \in 1..Len(DestItems) : DestItems[i].contentID \in C \ FailedOnly

\* C4 amended: with prune the members after the run are the candidates that
\* were on the board or were added (not those whose add failed, nor draft
\* issues that were absent), plus the stale items whose delete mutation
\* failed, which are all stale items when the fresh listing failed; items
\* without a content identifier stay on the board
C4_PruneLeavesCandidatesAndStuck ==
    (Completed /\ sync) =>
        /\ Members = (E \cap C) \cup (C \ (DraftCandidates \cup FailedOnly)) \cup StuckStale
        /\ \A i \in 1..Len(before) :
              before[i].contentID = NoID => before[i] \in Range(DestItems)

C4_Witness ==
    /\ Completed /\ sync
    /\ removed > 0
    /\ "added" \in Range(outcome)
    /\ StuckStale # {}

C6_AddsBeforeDeletes ==
    \A i, j \in 1..Len(mutations) :
        (mutations[i].kind = "delete" /\ mutations[j].kind = "add") =>
            /\ j < i
            /\ (mutations[j].ok => mutations[i].item # mutations[j].item)

C6_Witness ==
    /\ \E i \in 1..Len(mutations) : mutations[i].kind = "add" /\ mutations[i].ok
    /\ \E i \in 1..Len(mutations) : mutations[i].kind = "add" /\ ~mutations[i].ok
    /\ \E i \in 1..Len(mutations) : mutations[i].kind = "delete"

\* C7: a failed add does not end the loop: every candidate is processed, each
\* is attempted or skipped according to its own identifier and the index
\* alone, the failed ones count as skipped, and the run is not aborted
C7_FailedAddIsIsolated ==
    /\ \A j \in 1..Len(outcome) :
          (outcome[j] \in {"added", "failed"}) <=>
              (items[j].NodeID # NoID /\ items[j].Type # "DraftIssue"
               /\ items[j].NodeID \notin existingIDs)
    /\ (project # 0 /\ pc \notin {"read", "add"}) =>
          /\ Len(outcome) = Len(items)
          /\ added = Cardinality({j \in 1..Len(outcome) : outcome[j] = "added"})
          /\ added + skipped = Len(items)
    /\ err # "adding items"

C7_Witness ==
    /\ pc = "done" /\ err = "nil"
    /\ Len(outcome) = 2
    /\ outcome[1] = "failed"
    /\ outcome[2] = "added"

\* C8: UpdateBoard returns an error exactly when the board could neither be
\* found nor created; no later failure makes it return an error
C8_OnlyResolutionFailureIsFatal ==
    pc = "done" =>
        /\ (err # "nil") <=> (project = 0)
        /\ (project = 0) <=> ("create" \in failed)

C8_Witness ==
    /\ pc = "done" /\ err = "nil"
    /\ {"read", "add", "link", "list"} \subseteq failed

\* C9: a run whose board resolution succeeded ends with the summary and a nil
\* error whatever fails later; a run whose resolution failed prints no summary
C9_RunEndsWithSummary ==
    /\ (project # 0) ~> (pc = "done" /\ summary /\ err = "nil")
    /\ [](project = 0 => ~summary)

C9_Witness ==
    /\ pc = "done" /\ summary
    /\ {"read", "add", "delete"} \subseteq failed

\* C10: a board is created only when none with the requested title exists,
\* so the owner never has two boards with the requested title
C10_OneBoardPerTitle ==
    Cardinality({i \in 1..Len(projects) : projects[i].Title = TargetTitle}) <= 1

\* the add mutations of the run that succeeded, in order
OkAdds == LET Ok(m) == m.kind = "add" /\ m.ok IN SelectSeq(mutations, Ok)

\* the resolved board's items when the add phase is over
AfterAddItems == before \o [i \in 1..Len(OkAdds) |-> boardItem(OkAdds[i].item, OkAdds[i].content)]

\* number of delete mutations issued for an item-level identifier
DeletesOf(iid) ==
    Cardinality({k \in 1..Len(mutations) :
                    mutations[k].kind = "delete" /\ mutations[k].item = iid})

\* C11: without prune (Sync=false) the run issues no delete mutation and
\* every item that was on the board before the run is on it afterwards
C11_NoPruneKeepsEveryItem ==
    ~sync =>
        /\ \A k \in 1..Len(mutations) : mutations[k].kind # "delete"
        /\ pc \notin {"list", "remove"}
        /\ \A i \in 1..Len(before) : before[i] \in Range(DestItems)

C11_Witness ==
    /\ Completed /\ ~sync
    /\ E \ C # {}
    /\ added > 0

\* C12 as stated: a run with prune issues exactly one delete mutation for
\* each item on the board after the add phase whose content identifier is
\* not a candidate's, and for no other item
C12_OneDeletePerNonCandidateItem ==
    /\ (Completed /\ sync) =>
          \A i \in 1..Len(AfterAddItems) :
              DeletesOf(AfterAddItems[i].itemID) =
                  IF AfterAddItems[i].contentID \notin C THEN 1 ELSE 0
    /\ \A k \in 1..Len(mutations) :
          mutations[k].kind = "delete" =>
              \E i \in 1..Len(AfterAddItems) : AfterAddItems[i].itemID = mutations[k].item

\* C12 amended: stale removal works on the membership read after the add
\* phase and, when that read succeeds, issues exactly one delete mutation,
\* by item-level identifier, for each listed item that carries a content
\* identifier which is not a candidate's, and for no other item, also when
\* some of the deletes fail; when the read fails it issues no delete
C12_OneDeletePerStaleItem ==
    /\ (pc = "remove" \/ (Completed /\ sync /\ ~listErr)) => listed = AfterAddItems
    /\ (Completed /\ sync /\ ~listErr) =>
          \A i \in 1..Len(AfterAddItems) :
              DeletesOf(AfterAddItems[i].itemID) =
                  IF AfterAddItems[i].contentID # NoID /\ AfterAddItems[i].contentID \notin C
                  THEN 1 ELSE 0
    /\ listErr => \A k \in 1..Len(mutations) : mutations[k].kind # "delete"
    /\ \A k \in 1..Len(mutations) :
          mutations[k].kind = "delete" =>
              \E i \in 1..Len(AfterAddItems) : AfterAddItems[i].itemID = mutations[k].item

C12_Witness ==
    /\ Completed /\ sync /\ ~listErr
    /\ added > 0
    /\ \E j, k \in 1..Len(mutations) :
          /\ j < k
          /\ mutations[j].kind = "delete" /\ ~mutations[j].ok
          /\ mutations[k].kind = "delete" /\ mutations[k].ok

\* the content identifiers some configured search query returns
Matching == UNION Range(searches)

\* C13: with --sync every item removed from the board is one that no
\* configured search query returns, also when a search query failed
C13_RemovesOnlyUnmatchedItems ==
    \A k \in 1..Len(mutations) :
        (mutations[k].kind = "delete" /\ mutations[k].ok) => mutations[k].content \notin Matching

\* EnsureFields has returned
Ensured == fpc \in {"ensured", "set"}

\* the create mutation issued for the spec at position i in the current call failed
CreateFailedAt(i) ==
    \E k \in 1..Len(creates) :
        creates[k].call = call /\ creates[k].at = i /\ ~creates[k].ok

\* C14 as stated: the map EnsureFields returns has an entry keyed by
\* spec.Name for every FieldSpec of the needed list
C14_EveryFieldSpecRepresented ==
    Ensured => \A i \in 1..Len(needed) : needed[i].Name \in DOMAIN fields

\* C14 amended: the map EnsureFields returns has an entry keyed by spec.Name,
\* carrying that name, for every FieldSpec of the needed list except those
\* whose create mutation failed in this call
C14_EveryFieldSpecRepresentedUnlessCreateFailed ==
    Ensured =>
        \A i \in 1..Len(needed) :
            \/ /\ needed[i].Name \in DOMAIN fields
               /\ fields[needed[i].Name].Name = needed[i].Name
            \/ CreateFailedAt(i)

C14_Witness ==
    /\ Ensured
    /\ \E i, j \in 1..Len(needed) :
          /\ needed[i].Name \notin DOMAIN fields0
          /\ needed[i].Name \in DOMAIN fields
          /\ needed[j].Name \notin DOMAIN fields
          /\ CreateFailedAt(j)

\* C15: for a field name that is a key of the schema handed to EnsureFields
\* no create mutation is issued and the entry (identifier, type, options)
\* stays as it was, also when the field lacks requested options
C15_ExistingFieldsUntouched ==
    \A n \in DOMAIN fields0 :
        /\ n \in DOMAIN fields
        /\ fields[n] = fields0[n]
        /\ \A k \in 1..Len(creates) : creates[k].name # n

C15_Witness ==
    /\ Ensured
    /\ \E i \in 1..Len(needed) :
          /\ needed[i].Name \in DOMAIN fields0
          /\ needed[i].Type = "SINGLE_SELECT"
          /\ countMissingOptions(fields0[needed[i].Name], needed[i].Options) > 0
    /\ \E k \in 1..Len(creates) : creates[k].ok

\* no create mutation is issued for a name that is a key of the schema read
\* or that an earlier create mutation has created
NoCreateForPresentField ==
    \A k \in 1..Len(creates) :
        /\ creates[k].name \notin DOMAIN fields0
        /\ \A j \in 1..(k - 1) : ~(creates[j].name = creates[k].name /\ creates[j].ok)

\* C16 as stated: a repeated EnsureFields call issues no create mutation for
\* a field created or already present, and one call issues at most one
\* create mutation for a name
C16_CreateIsIdempotent ==
    /\ NoCreateForPresentField
    /\ \A j, k \in 1..Len(creates) :
          (creates[j].call = creates[k].call /\ creates[j].name = creates[k].name) => j = k

\* C16 amended: a repeated EnsureFields call issues no create mutation for
\* a field created or already present, and a name is created at most once:
\* a second create mutation for a name is issued only after the earlier
\* ones failed
C16_CreateIsIdempotentOnceCreated ==
    /\ NoCreateForPresentField
    /\ \A j, k \in 1..Len(creates) :
          (creates[j].name = creates[k].name /\ creates[j].ok /\ creates[k].ok) => j = k

C16_Witness ==
    /\ Ensured
    /\ call > 1
    /\ \E i, j \in 1..Len(needed) :
          /\ i < j
          /\ needed[i].Name = needed[j].Name
          /\ needed[i].Name \notin DOMAIN fields0
          /\ needed[i].Name \in DOMAIN fields

\* SetItemFields has visited every entry of the item's field map
AllVisited == fpc = "set" /\ todo = {}

\* the map entries SetItemFields can apply: a value, a field of the map, and
\* for a single-select field an option of that name
Applicable ==
    {n \in DOMAIN fieldValues : fieldValueFor(fields, n, fieldValues[n]).skip = "no"}

\* every FieldSpec was looked at in the call that has returned
EverySpecProcessed ==
    Ensured =>
        \A i \in 1..Len(needed) :
            \/ needed[i].Name \in DOMAIN fields
            \/ \E k \in 1..Len(creates) : creates[k].call = call /\ creates[k].at = i

\* SetItemFields issues mutations for the fields of the map only, and for
\* each applicable entry it has visited
OnlyMapFieldsUpdated ==
    /\ \A u \in 1..Len(updates) : updates[u].name \in DOMAIN fields
    /\ AllVisited => \A n \in Applicable : \E u \in 1..Len(updates) : updates[u].name = n

\* C17 as stated: after a failed create of f the later specs are processed,
\* f is not in the returned map, and SetItemFields issues no mutation for f
\* while it applies the other fields
C17_FailedCreateSkipsOnlyThatField ==
    /\ EverySpecProcessed
    /\ OnlyMapFieldsUpdated
    /\ Ensured =>
          \A k \in 1..Len(creates) :
              (creates[k].call = call /\ ~creates[k].ok) => creates[k].name \notin DOMAIN fields

\* C17 amended: after a failed create of f the later specs are processed, f
\* is not in the returned map unless a later spec of the same name was
\* created, and SetItemFields issues no mutation for a field that is not in
\* the map while it applies the other fields
C17_FailedCreateSkipsThatFieldUnlessRetried ==
    /\ EverySpecProcessed
    /\ OnlyMapFieldsUpdated
    /\ Ensured =>
          \A k \in 1..Len(creates) :
              (creates[k].call = call /\ ~creates[k].ok) =>
                  \/ creates[k].name \notin DOMAIN fields
                  \/ \E j \in (k + 1)..Len(creates) :
                        creates[j].name = creates[k].name /\ creates[j].ok

C17_Witness ==
    /\ AllVisited
    /\ \E k, j \in 1..Len(creates) :
          /\ creates[k].call = call /\ ~creates[k].ok
          /\ creates[j].call = call /\ creates[j].ok /\ creates[j].at > creates[k].at
          /\ creates[k].name \notin DOMAIN fields
          /\ creates[k].name \in DOMAIN fieldValues
          /\ fieldValues[creates[k].name] # Empty
          /\ \E u \in 1..Len(updates) : updates[u].name = creates[j].name /\ updates[u].ok

\* two names are equal ignoring letter case
SameIgnoringCase(a, b) ==
    /\ Len(a) = Len(b)
    /\ \A i \in 1..Len(a) : a[i] = b[i] \/ lowerOf(a[i]) = b[i] \/ a[i] = lowerOf(b[i])

\* the field has an option of that name
HasOption(field, name) ==
    \E i \in 1..Len(field.Options) : SameIgnoringCase(field.Options[i].Name, name)

\* the entries of the item's field map that name an option the destination
\* single-select field does not have
UnknownOptionEntries ==
    {n \in DOMAIN fieldValues \cap DOMAIN fields :
        /\ fields[n].Type = "SINGLE_SELECT"
        /\ fieldValues[n] # Empty
        /\ ~HasOption(fields[n], fieldValues[n])}

\* C18: for a field value naming an option the destination single-select
\* field does not have, SetItemFields issues no mutation for that field on
\* that item and the item's value for the field stays as it was
C18_UnknownOptionIssuesNoMutation ==
    fpc = "set" =>
        \A n \in UnknownOptionEntries :
            /\ \A u \in 1..Len(updates) : updates[u].name # n /\ updates[u].field # fields[n].ID
            /\ values[fields[n].ID] = OldValue

C18_Witness ==
    /\ AllVisited
    /\ UnknownOptionEntries # {}
    /\ \E u \in 1..Len(updates) : updates[u].ok

\* the single-select fields of the map that the item's field map names
SelectEntries ==
    {n \in DOMAIN fieldValues \cap DOMAIN fields : fields[n].Type = "SINGLE_SELECT"}

\* the options of a field that carry the identifier
OptionsWithID(field, id) == {i \in 1..Len(field.Options) : field.Options[i].ID = id}

\* C19: ResolveOptionID(field, name) answers (id, true) with the identifier
\* of an option whose name equals name ignoring letter case whenever the
\* field has such an option, and ("", false) otherwise; the option
\* identifiers SetItemFields sends are resolved this way
C19_ResolveIsCaseInsensitiveExact ==
    fpc = "set" =>
        /\ \A n \in SelectEntries :
              LET r == ResolveOptionID(fields[n], fieldValues[n]) IN
              IF HasOption(fields[n], fieldValues[n])
              THEN /\ r.found
                   /\ \E i \in OptionsWithID(fields[n], r.id) :
                         SameIgnoringCase(fields[n].Options[i].Name, fieldValues[n])
              ELSE r = [id |-> NoOption, found |-> FALSE]
        /\ \A u \in 1..Len(updates) :
              updates[u].value.kind = "singleSelectOptionId" =>
                  \E i \in OptionsWithID(fields[updates[u].name], updates[u].value.opt) :
                      SameIgnoringCase(fields[updates[u].name].Options[i].Name,
                                       fieldValues[updates[u].name])

C19_Witness ==
    /\ fpc = "set"
    /\ \E u \in 1..Len(updates) :
          /\ updates[u].value.kind = "singleSelectOptionId"
          /\ \E i \in OptionsWithID(fields[updates[u].name], updates[u].value.opt) :
                fields[updates[u].name].Options[i].Name # fieldValues[updates[u].name]

\* number of field-value mutations of this call for a field name
UpdatesOf(n) == Cardinality({u \in 1..Len(updates) : updates[u].name = n})

\* C20: when SetItemFields has gone through an item's field map, every
\* applicable entry has had its one mutation, whether or not a mutation
\* failed for another field of the item or for an earlier item
C20_FailedUpdateIsIsolated ==
    AllVisited =>
        \A n \in DOMAIN fieldValues : UpdatesOf(n) = IF n \in Applicable THEN 1 ELSE 0

C20_Witness ==
    /\ AllVisited
    /\ target > 1
    /\ updateFailed
    /\ \E u, v \in 1..Len(updates) : u < v /\ ~updates[u].ok /\ updates[v].ok

\* number of mutations of a kind in the log, all of them or the successful ones
Issued(kind) == Cardinality({k \in 1..Len(mutations) : mutations[k].kind = kind})
Succeeded(kind) ==
    Cardinality({k \in 1..Len(mutations) : mutations[k].kind = kind /\ mutations[k].ok})

\* C21: the number of add mutations of a completed run is the number of
\* distinct candidate content identifiers that were not on the board
C21_AddsOnlyTheDelta ==
    Completed => Issued("add") = Cardinality(C \ E)

\* number of candidates processed so far with one of the given outcomes
OutcomesIn(S) == Cardinality({i \in 1..Len(outcome) : outcome[i] \in S})

\* what the counters have in common in the statement and in its amendment
CountsMatchMutations ==
    /\ added = Succeeded("add")
    /\ removed = Succeeded("delete")
    /\ added + skipped = Len(outcome)
    /\ Completed => added + skipped = Len(items)
    /\ \A k \in 1..Len(mutations) : mutations[k].kind = "add" => mutations[k].content # NoID

C23_CreatedBoardIsMadePrivate ==
    (Completed /\ created) => \E k \in 1..Len(mutations) : mutations[k].kind = "setPrivate"

\* the entries of a field map in the order of their keys
KeyOrder == <<"Notes", "Status">>
KeyPos(n) == CHOOSE i \in 1..Len(KeyOrder) : KeyOrder[i] = n

\* C24: the mutations are issued in input order: the create-field mutations
\* of a call in the order of the FieldSpec list, the field-value mutations of
\* an item in the order of the entries of its field map
C24_MutationsInInputOrder ==
    /\ \A j, k \in 1..Len(creates) :
          (j < k /\ creates[j].call = creates[k].call) => creates[j].at < creates[k].at
    /\ \A u, v \in 1..Len(updates) :
          u < v => KeyPos(updates[u].name) < KeyPos(updates[v].name)

\* an entry of the item's field map that has a value, names a field of the
\* map and, for a single-select field, one of its options
Qualifies(n) ==
    /\ fieldValues[n] # Empty
    /\ n \in DOMAIN fields
    /\ fields[n].Type = "SINGLE_SELECT" => HasOption(fields[n], fieldValues[n])

\* C25: SetItemFields issues exactly one field-value mutation for each entry
\* with a value, a field of the schema and (single-select) a matching
\* option, and none for any other entry; the mutation goes to the field's
\* identifier and carries the matched option's identifier for a
\* single-select field, the desired value verbatim as text otherwise
C25_OneMutationPerQualifyingEntry ==
    /\ AllVisited =>
          \A n \in DOMAIN fieldValues : UpdatesOf(n) = IF Qualifies(n) THEN 1 ELSE 0
    /\ fpc = "set" =>
          \A u \in 1..Len(updates) :
              LET n == updates[u].name IN
              /\ Qualifies(n)
              /\ updates[u].field = fields[n].ID
              /\ IF fields[n].Type = "SINGLE_SELECT"
                 THEN /\ updates[u].value.kind = "singleSelectOptionId"
                      /\ updates[u].value.text = Empty
                      /\ \E i \in OptionsWithID(fields[n], updates[u].value.opt) :
                            SameIgnoringCase(fields[n].Options[i].Name, fieldValues[n])
                 ELSE updates[u].value = [kind |-> "text", opt |-> NoOption,
                                          text |-> fieldValues[n]]

C25_Witness ==
    /\ AllVisited
    /\ \E u, v \in 1..Len(updates) :
          /\ updates[u].value.kind = "singleSelectOptionId"
          /\ updates[v].value.kind = "text"
          /\ updates[v].value.text # ToLower(updates[v].value.text)

\* the entries of a list of option names for which ResolveOptionID fails
Unresolved(field, names) ==
    {i \in 1..Len(names) : ~ResolveOptionID(field, names[i]).found}

\* C30: for every field of the map EnsureFields works on or has returned and
\* every requested option list, countMissingOptions is the number of entries
\* of the list for which ResolveOptionID fails, and it is 0 exactly when
\* every entry resolves
C30_SchemaCheckAgreesWithMapper ==
    fpc \in {"ensure", "ensured"} =>
        \A i \in 1..Len(needed) :
            \A n \in DOMAIN fields :
                LET missing == countMissingOptions(fields[n], needed[i].Options) IN
                /\ missing = Cardinality(Unresolved(fields[n], needed[i].Options))
                /\ missing = 0 <=> Unresolved(fields[n], needed[i].Options) = {}

C30_Witness ==
    /\ Ensured
    /\ \E i \in 1..Len(needed), n \in DOMAIN fields :
          /\ Len(needed[i].Options) = 2
          /\ needed[i].Options[1] = needed[i].Options[2]
          /\ countMissingOptions(fields[n], needed[i].Options) = 2
    /\ \E i \in 1..Len(needed) :
          /\ needed[i].Name \in DOMAIN fields0
          /\ countMissingOptions(fields[needed[i].Name], needed[i].Options) = 1
          /\ Len(needed[i].Options) = 2
    /\ \E i \in 1..Len(needed) :
          /\ needed[i].Name \in DOMAIN fields0
          /\ Len(needed[i].Options) > 0
          /\ needed[i].Options[1] \notin
                {fields[needed[i].Name].Options[j].Name :
                    j \in 1..Len(fields[needed[i].Name].Options)}
          /\ countMissingOptions(fields[needed[i].Name], needed[i].Options) = 0

\* C29: when the fresh membership read of the stale removal fails on any
\* page, removeStaleItems returns an error with removed = 0, has issued no
\* delete mutation, never works on the pages read so far, and the board is
\* as the add phase left it
C29_FailedListingPrunesNothing ==
    /\ "list" \in failed <=> listErr
    /\ pc = "list" => Issued("delete") = 0
    /\ listErr =>
          /\ Issued("delete") = 0
          /\ removed = 0
          /\ pc # "remove"
          /\ DestItems = AfterAddItems

C29_Witness ==
    /\ Completed /\ sync /\ listErr
    /\ Len(listed) > 0
    /\ isStale(listed[1], C)
    /\ added > 0

\* C26: AddItem returns the empty identifier and no error for content that
\* is on the board already, and then creates no second board item;
\* otherwise it returns the identifier of the board item it created
C26_AddItemEmptyWhenPresent ==
    \A k \in 1..Len(ret) :
        ~ret[k].failed =>
            IF ret[k].present
            THEN ret[k].id = NoItem /\ ~ret[k].grew
            ELSE /\ ret[k].id # NoItem /\ ret[k].grew
                 /\ \E i \in 1..Len(projects[1].Items) :
                       projects[1].Items[i] = boardItem(ret[k].id, ret[k].content)

\* an entry of the form owner/name: an owner, a "/", a name
OwnerSlashName(repo) ==
    \E i \in 2..(Len(repo) - 1) : repo[i] = "/" /\ \A j \in 1..(i - 1) : repo[j] # "/"

\* the entries processed so far with a given result
LinkedAs(S) == Cardinality({i \in 1..Len(linkLog) : linkLog[i].result \in S})

\* what the statement and its amendment have in common: the counters add
\* up, an already-linked error counts as skipped, every entry is attempted
\* whatever happened to the ones before, and the returned error is nil
LinkIsBestEffort ==
    /\ linked = LinkedAs({"linked"})
    /\ linkSkipped = LinkedAs({"invalid", "resolveErr", "alreadyLinked", "linkErr"})
    /\ linked + linkSkipped = lidx - 1
    /\ tpc = "linked" =>
          /\ Len(linkLog) = Len(repos)
          /\ ret = <<[linked |-> linked, skipped |-> linkSkipped, failed |-> FALSE]>>
          /\ linked + linkSkipped = Len(repos)

\* C27 as stated: LinkProjectToRepositories is best-effort per repository
\* and makes no API call for an entry that is not of the form owner/name
C27_LinkIsBestEffortPerRepo ==
    /\ LinkIsBestEffort
    /\ \A i \in 1..Len(linkLog) : ~OwnerSlashName(repos[i]) => linkLog[i].calls = <<>>

\* C27 amended: LinkProjectToRepositories is best-effort per repository and
\* makes no API call for an entry that holds no "/"
C27_LinkIsBestEffortNoCallWithoutSlash ==
    /\ LinkIsBestEffort
    /\ \A i \in 1..Len(linkLog) :
          (\A j \in 1..Len(repos[i]) : repos[i][j] # "/") <=> linkLog[i].calls = <<>>

C27_Witness ==
    /\ tpc = "linked"
    /\ \E i, j, k \in 1..Len(linkLog) :
          /\ i < j /\ j < k
          /\ linkLog[i].result = "invalid"
          /\ linkLog[j].result \in {"alreadyLinked", "linkErr", "resolveErr"}
          /\ linkLog[k].result = "linked"

\* the files of a directory that belong to a prefix
FilesOf(files, prefix) == {f \in files : discoveredPrefix(f) = prefix}

\* the n newest by name of a set of files
Newest(files, n) == {f \in files : Cardinality({g \in files : Less(f, g)}) < n}

\* C28: after CleanAll(dir, keep) without a removal failure the files kept
\* for each discovered prefix are its min(keep, n) newest by name, also when
\* one prefix is a leading substring of another, and the returned count is
\* the number of files removed
C28_KeepsNewestPerPrefix ==
    (tpc = "cleaned" /\ ~rmFailed) =>
        /\ \A f \in dir0 :
              LET p == discoveredPrefix(f) IN
              FilesOf(dir, p) = Newest(FilesOf(dir0, p), keep)
        /\ ret[1].total = Cardinality(dir0 \ dir)

====
